---- MODULE Spec2Model ----
(***************************************************************************)
(* Model of IGDividendPDFDataExtract.py: the regular-expression extraction *)
(* of the four dividend fields from the text of page 3 of a PDF, the       *)
(* appending of the collected records to the "Dividends" sheet of an Excel *)
(* workbook, and the loop of process_pdfs over a directory listing.        *)
(*                                                                         *)
(* A text is a sequence of one-character strings.  A position i in         *)
(* 1..Len(text)+1 is the gap before text[i]; a match is a pair of          *)
(* positions [from, to) as Python's Match.start() and Match.end() (plus 1).*)
(***************************************************************************)
EXTENDS Integers, Sequences, FiniteSets, TLC

(***************************************************************************)
(* Character classes of Python's re module on str patterns.                *)
(***************************************************************************)
Digits == {"0", "1", "2", "3", "4", "5", "6", "7", "8", "9"}

Upper == {"A", "B", "C", "D", "E", "F", "G", "H", "I", "J", "K", "L", "M",
          "N", "O", "P", "Q", "R", "S", "T", "U", "V", "W", "X", "Y", "Z"}

Lower == {"a", "b", "c", "d", "e", "f", "g", "h", "i", "j", "k", "l", "m",
          "n", "o", "p", "q", "r", "s", "t", "u", "v", "w", "x", "y", "z"}

Letters == Upper \cup Lower

Whitespace == {" ", "\t", "\n", "\r", "\f"}

WordChars == Letters \cup Digits \cup {"_"}

NameChars == Letters \cup Whitespace \cup {"&", "-"}

(***************************************************************************)
(* Regular expressions as trees, and the backtracking matcher of re.       *)
(* Ends(re, text, i) is the sequence of end positions of the matches of re *)
(* that start at i, in the order the backtracking engine tries them: a     *)
(* greedy + tries the longest repetition first, an alternation its         *)
(* branches left to right.                                                 *)
(***************************************************************************)
Cls(s) == [t |-> "cls", s |-> s]

Chr(c) == Cls({c})

WordBoundary == [t |-> "wb"]

Cat(xs) == [t |-> "cat", xs |-> xs]

Alt(xs) == [t |-> "alt", xs |-> xs]

Plus(x) == [t |-> "plus", x |-> x]

Lit(str) == Cat([k \in 1..Len(str) |-> Chr(str[k])])

IsWordAt(text, i) == i >= 1 /\ i <= Len(text) /\ text[i] \in WordChars

IsBoundary(text, i) == IsWordAt(text, i - 1) # IsWordAt(text, i)

RECURSIVE Ends(_, _, _), EndsCat(_, _, _, _), EndsAlt(_, _, _, _), EndsPlus(_, _, _)
Ends(re, text, i) ==
  CASE re.t = "cls" -> IF i <= Len(text) /\ text[i] \in re.s THEN <<i + 1>> ELSE <<>>
    [] re.t = "wb" -> IF IsBoundary(text, i) THEN <<i>> ELSE <<>>
    [] re.t = "cat" -> EndsCat(re.xs, text, <<i>>, 1)
    [] re.t = "alt" -> EndsAlt(re.xs, text, i, 1)
    [] re.t = "plus" -> EndsPlus(re.x, text, Ends(re.x, text, i))

\* the ends of xs[k] xs[k+1] ... started at each position of `from`, in order
EndsCat(xs, text, from, k) ==
  IF from = <<>> THEN <<>>
  ELSE IF k > Len(xs) THEN from
  ELSE EndsCat(xs, text, Ends(xs[k], text, Head(from)), k + 1)
         \o EndsCat(xs, text, Tail(from), k)

EndsAlt(xs, text, i, k) ==
  IF k > Len(xs) THEN <<>>
  ELSE Ends(xs[k], text, i) \o EndsAlt(xs, text, i, k + 1)

\* `once` are the ends of one repetition: one more repetition is tried first
EndsPlus(x, text, once) ==
  IF once = <<>> THEN <<>>
  ELSE EndsPlus(x, text, Ends(x, text, Head(once)))
         \o <<Head(once)>> \o EndsPlus(x, text, Tail(once))

NoMatch == [found |-> FALSE]

\* re.search from position i on: the first position with a match, and there
\* the first match the engine finds
RECURSIVE SearchFrom(_, _, _)
SearchFrom(re, text, i) ==
  IF i > Len(text) + 1 THEN NoMatch
  ELSE LET es == Ends(re, text, i)
       IN IF es # <<>> THEN [found |-> TRUE, from |-> i, to |-> Head(es)]
          ELSE SearchFrom(re, text, i + 1)

Search(re, text) == SearchFrom(re, text, 1)

\* Match.group(0): the text of the whole match
Group0(text, m) == SubSeq(text, m.from, m.to - 1)

(***************************************************************************)
(* The four patterns of extract_dividend_details.                          *)
(***************************************************************************)
Digit == Cls(Digits)

Letter == Cls(Letters)

\* r'(\d{2}[A-Za-z]{3}\d{2})'
date_re == Cat(<<Digit, Digit, Letter, Letter, Letter, Digit, Digit>>)

Suffixes == << <<"L", "t", "d">>, <<"P", "L", "C">>, <<"I", "n", "c">>,
               <<"C", "o", "r", "p">>, <<"C", "o">>, <<"G", "r", "o", "u", "p">> >>

\* the name pattern without the \b after the suffix
name_re_open_ended ==
  Cat(<<WordBoundary, Plus(Cls(NameChars)),
        Alt([k \in 1..Len(Suffixes) |-> Lit(Suffixes[k])])>>)

\* r'(\b[A-Za-z\s&-]+(Ltd|PLC|Inc|Corp|Co|Group)\b)'
name_re ==
  Cat(<<WordBoundary, Plus(Cls(NameChars)),
        Alt([k \in 1..Len(Suffixes) |-> Lit(Suffixes[k])]), WordBoundary>>)

\* r'\d+\.\d+'
decimal_re == Cat(<<Plus(Digit), Chr("."), Plus(Digit)>>)

\* r'(\d+@\d+\.\d+)'
dividend_re == Cat(<<Plus(Digit), Chr("@"), decimal_re>>)

DividendWord == <<"D", "i", "v", "i", "d", "e", "n", "d">>

\* r'Dividend\s(\d+\.\d+)'
amount_re == Cat(<<Lit(DividendWord), Cls(Whitespace), decimal_re>>)

\* Match.group(1) of amount_re: the decimal after "Dividend" and one whitespace
AmountGroup1(text, m) == SubSeq(text, m.from + Len(DividendWord) + 1, m.to - 1)

(***************************************************************************)
(* float() on a string of the form \d+\.\d+ .  The value is mant / 10^scale*)
(* with no trailing zero in the fraction, so "1.50" and "01.5" are the     *)
(* same number.                                                            *)
(***************************************************************************)
DigitSeq == <<"0", "1", "2", "3", "4", "5", "6", "7", "8", "9">>

DigitValue(c) == (CHOOSE k \in 1..Len(DigitSeq) : DigitSeq[k] = c) - 1

RECURSIVE NatOf(_)
NatOf(ds) ==
  IF ds = <<>> THEN 0
  ELSE NatOf(SubSeq(ds, 1, Len(ds) - 1)) * Len(DigitSeq) + DigitValue(ds[Len(ds)])

RECURSIVE StripZeros(_)
StripZeros(ds) ==
  IF ds # <<>> /\ ds[Len(ds)] = "0" THEN StripZeros(SubSeq(ds, 1, Len(ds) - 1)) ELSE ds

Float(str) ==
  LET dot == CHOOSE k \in 1..Len(str) : str[k] = "."
      frac == StripZeros(SubSeq(str, dot + 1, Len(str)))
  IN [kind |-> "float", mant |-> NatOf(SubSeq(str, 1, dot - 1) \o frac),
      scale |-> Len(frac)]

\* a str value
Str(chars) == [kind |-> "str", v |-> chars]

None == [kind |-> "None"]

\* a tuple value
Tuple(items) == [kind |-> "tuple", v |-> items]

\* truth value of None or a tuple
Truthy(x) == x.kind = "tuple" /\ Len(x.v) > 0

(***************************************************************************)
(* Lines 51-67 of extract_dividend_details: the four searches on the text  *)
(* of page 3 and the tuple returned, None unless all four match.           *)
(***************************************************************************)
ExtractFields(text) ==
  LET date_match == Search(date_re, text)
      name_match == Search(name_re, text)
      dividend_match == Search(dividend_re, text)
      amount_match == Search(amount_re, text)
  IN IF date_match.found /\ name_match.found /\ dividend_match.found
          /\ amount_match.found
     THEN Tuple(<<Str(Group0(text, date_match)), Str(Group0(text, name_match)),
                  Str(Group0(text, dividend_match)),
                  Float(AmountGroup1(text, amount_match))>>)
     ELSE None

(***************************************************************************)
(* Bounds of the model.                                                    *)
(***************************************************************************)
\* most entries in the directory listing
MaxFiles == 3

\* most data rows in a destination sheet that exists before the first run
MaxOldRows == 1

\* most runs of the script against the same directory and destination
MaxRuns == 2

\* most chunks concatenated into a page text when extraction is checked alone
MaxChunks == 4

(***************************************************************************)
(* Page texts.  Page(k) holds one instance of each field, with a date and  *)
(* an amount that depend on k; PageNoAmount(k) lacks the amount.  So the   *)
(* records of the documents at different positions of a listing differ.    *)
(***************************************************************************)
cDate(k) == <<"1", DigitSeq[k + 1], "M", "a", "r", "2", "4">>

cName == <<"A", "c", "m", "e", " ", "&", " ", "S", "o", "n", " ", "L", "t", "d">>

cDividend == <<"5", "0", "0", "@", "0", ".", "2", "5">>

cAmount(k) == DividendWord \o <<" ", "1", "2", DigitSeq[k + 1], ".", "5", "0">>

cNewline == <<"\n">>

Page(k) ==
  cDate(k) \o cNewline \o cName \o cNewline \o cDividend \o cNewline \o cAmount(k)

PageNoAmount(k) == cDate(k) \o cNewline \o cName \o cNewline \o cDividend

(***************************************************************************)
(* Directory entries.  name is the file name; kind says what opening and   *)
(* parsing the file does; pages are the texts of the pages of the parsed   *)
(* document (reader.pages, page.extract_text()).                           *)
(***************************************************************************)
PdfExt == <<".", "p", "d", "f">>

TxtExt == <<".", "t", "x", "t">>

BaseName(k) == <<"f", DigitSeq[k + 1]>>

Cover == <<"S", "t", "a", "t", "e", "m", "e", "n", "t">>

Doc(name, kind, pages) == [name |-> name, kind |-> kind, pages |-> pages]

\* The page texts extraction is checked on alone: up to MaxChunks chunks, each
\* a field, a part of one, or a separator, one after the other.
Chunks == {cDate(1), <<"A", " ", "L", "t", "d">>, <<"5", "@", "0", ".", "2">>,
           cAmount(0), DividendWord, <<"7">>, <<" ">>}

RECURSIVE ChunkSeqs(_)
ChunkSeqs(n) ==
  IF n = 0 THEN {<<>>}
  ELSE LET shorter == ChunkSeqs(n - 1)
           longest == {cs \in shorter : Len(cs) = n - 1}
       IN shorter \cup {Append(cs, c) : cs \in longest, c \in Chunks}

RECURSIVE Concat(_)
Concat(cs) == IF cs = <<>> THEN <<>> ELSE Head(cs) \o Concat(Tail(cs))

\* The files a directory can hold.  A listing names each of its entries by
\* one of these words, and Entry(k, file, cs) is the entry it names at
\* position k; page 3 of the file "composed" is the chunks cs.
Files == {"notes", "locked", "broken", "short", "good", "partial"}

Entry(k, file, cs) ==
  CASE file = "composed" ->
         Doc(BaseName(k) \o PdfExt, "pdf", <<Cover, Cover, Concat(cs)>>)
    [] file = "notes" -> Doc(BaseName(k) \o TxtExt, "other", <<>>)
    [] file = "locked" -> Doc(BaseName(k) \o PdfExt, "unopenable", <<>>)
    [] file = "broken" -> Doc(BaseName(k) \o PdfExt, "unparsable", <<>>)
    [] file = "short" -> Doc(BaseName(k) \o PdfExt, "pdf", <<Cover, Page(k)>>)
    [] file = "good" -> Doc(BaseName(k) \o PdfExt, "pdf", <<Cover, Cover, Page(k)>>)
    [] file = "partial" ->
         Doc(BaseName(k) \o PdfExt, "pdf", <<Cover, Page(k), PageNoAmount(k), Page(k)>>)

Listings == UNION {[1..n -> Files] : n \in 0..MaxFiles}

\* str.endswith
EndsWith(str, suffix) ==
  /\ Len(str) >= Len(suffix)
  /\ SubSeq(str, Len(str) - Len(suffix) + 1, Len(str)) = suffix

(***************************************************************************)
(* Workbooks.  A workbook is the sequence of its sheets, a sheet a title   *)
(* and its rows, a row the sequence of its cell values.                    *)
(***************************************************************************)
Sheet(title, rows) == [title |-> title, rows |-> rows]

Header == <<Str(<<"D", "a", "t", "e">>), Str(<<"N", "a", "m", "e">>),
            Str(<<"D", "i", "v", "i", "d", "e", "n", "d", " ",
                  "D", "e", "t", "a", "i", "l", "s">>),
            Str(<<"A", "m", "o", "u", "n", "t">>)>>

\* Workbook(): one sheet, the active one, titled "Sheet"
NewWorkbook == <<Sheet("Sheet", <<>>)>>

\* the file at a path: absent, or an .xlsx file holding a workbook
NoFile == [exists |-> FALSE, sheets |-> <<>>]

File(wb) == [exists |-> TRUE, sheets |-> wb]

OldRow(k) == <<Str(<<"0", DigitSeq[k + 1], "J", "a", "n", "2", "4">>),
               Str(<<"O", "l", "d", " ", "P", "L", "C">>),
               Str(<<"1", "@", "0", ".", "1">>),
               [kind |-> "float", mant |-> k, scale |-> 0]>>

OldSheet(n) == Sheet("Dividends", <<Header>> \o [k \in 1..n |-> OldRow(k)])

OtherSheet == Sheet("Summary", <<<<Str(<<"T", "o", "t", "a", "l">>)>>>>)

\* what can be at excel_path before the first run
Destinations ==
  {NoFile, File(<<OtherSheet>>)}
    \cup {File(<<OtherSheet, OldSheet(n)>>) : n \in 0..MaxOldRows}

\* the indexes of the sheets of wb titled title
SheetsTitled(wb, title) == {k \in 1..Len(wb) : wb[k].title = title}

(***************************************************************************)
(* The program state.                                                      *)
(***************************************************************************)
VARIABLES
  listing,        \* os.listdir(directory), each entry named by a word of Files
  chunks,         \* the chunks of page 3 of the file "composed"
  excel,          \* the file at excel_path: NoFile or the workbook saved there
  pc,             \* the position of the program
  i,              \* the number of entries of listing the loop has taken
  open_files,     \* the positions in listing of the files that are open
  details,        \* the value extract_dividend_details returned
  dividend_data,  \* the list process_pdfs collects
  workbook,       \* the workbook update_excel holds in memory, <<>> before it has one
  exception,      \* the name of the exception that ended the run, "" when none did
  calls,          \* how often this run has called update_excel and workbook.save
  run,            \* the number of the run
  history         \* the file at excel_path before the first run and after each run

vars == <<listing, chunks, excel, pc, i, open_files, details, dividend_data, workbook,
          exception, calls, run, history>>

MinPages == 3

PageIndex == 2

\* the memory of a run of the script when it starts
Fresh ==
  /\ pc = "for"
  /\ i = 0
  /\ open_files = {}
  /\ details = None
  /\ dividend_data = <<>>
  /\ workbook = <<>>
  /\ exception = ""
  /\ calls = [update_excel |-> 0, save |-> 0]

Init ==
  /\ listing \in Listings
  /\ chunks = <<>>
  /\ excel \in Destinations
  /\ Fresh
  /\ run = 1
  /\ history = <<excel>>

(***************************************************************************)
(* process_pdfs, lines 91-93: the loop takes the next entry of the listing *)
(* and skips it unless its name ends with ".pdf"; after the last entry the *)
(* program goes on to line 101.                                            *)
(***************************************************************************)
IsPdfName(filename) == EndsWith(filename, PdfExt)

\* the entry the loop is at
Current == Entry(i, listing[i], chunks)

ForNext ==
  /\ pc = "for"
  /\ i < Len(listing)
  /\ i' = i + 1
  /\ pc' = IF IsPdfName(Entry(i + 1, listing[i + 1], chunks).name) THEN "open" ELSE "for"
  /\ UNCHANGED <<listing, chunks, excel, open_files, details, dividend_data, workbook,
                 exception, calls, run, history>>

ForEnd ==
  /\ pc = "for"
  /\ i = Len(listing)
  /\ pc' = "update_excel"
  /\ UNCHANGED <<listing, chunks, excel, i, open_files, details, dividend_data,
                 workbook, exception, calls, run, history>>

(***************************************************************************)
(* extract_dividend_details, line 35: open(pdf_path, 'rb').  No handler    *)
(* catches the OSError of a file that cannot be opened: it ends the run.   *)
(***************************************************************************)
Open ==
  /\ pc = "open"
  /\ IF Current.kind = "unopenable"
     THEN /\ exception' = "OSError"
          /\ pc' = "raised"
          /\ UNCHANGED open_files
     ELSE /\ open_files' = open_files \cup {i}
          /\ pc' = "PdfReader"
          /\ UNCHANGED exception
  /\ UNCHANGED <<listing, chunks, excel, i, details, dividend_data, workbook, calls, run,
                 history>>

(***************************************************************************)
(* Line 36: PyPDF2.PdfReader(file).  On a file that is no PDF it raises;   *)
(* the with statement closes the file and the exception ends the run.      *)
(***************************************************************************)
PdfReader ==
  /\ pc = "PdfReader"
  /\ IF Current.kind = "unparsable"
     THEN /\ exception' = "PdfReadError"
          /\ open_files' = open_files \ {i}
          /\ pc' = "raised"
     ELSE /\ pc' = "pages"
          /\ UNCHANGED <<exception, open_files>>
  /\ UNCHANGED <<listing, chunks, excel, i, details, dividend_data, workbook, calls, run,
                 history>>

(***************************************************************************)
(* Lines 39-67: what extract_dividend_details returns for a parsed         *)
(* document: None when it has fewer than 3 pages, else the fields found in *)
(* the text of reader.pages[2].                                            *)
(***************************************************************************)
ExtractPages(pages) ==
  IF Len(pages) < MinPages THEN None ELSE ExtractFields(pages[PageIndex + 1])

\* the function with the file closed after the searches only, so that the
\* return at line 41 leaves it open
ExtractLeavingOpen ==
  /\ pc = "pages"
  /\ details' = ExtractPages(Current.pages)
  /\ open_files' = IF Len(Current.pages) < MinPages THEN open_files
                   ELSE open_files \ {i}
  /\ pc' = "details"
  /\ UNCHANGED <<listing, chunks, excel, i, dividend_data, workbook, exception, calls,
                 run, history>>

\* the with statement closes the file as the function returns
Extract ==
  /\ pc = "pages"
  /\ details' = ExtractPages(Current.pages)
  /\ open_files' = open_files \ {i}
  /\ pc' = "details"
  /\ UNCHANGED <<listing, chunks, excel, i, dividend_data, workbook, exception, calls, run,
                 history>>

(***************************************************************************)
(* process_pdfs, lines 95-96: if details: dividend_data.append(details)    *)
(***************************************************************************)
Collect ==
  /\ pc = "details"
  /\ dividend_data' = IF Truthy(details) THEN Append(dividend_data, details)
                      ELSE dividend_data
  /\ pc' = "for"
  /\ UNCHANGED <<listing, chunks, excel, i, open_files, details, workbook, exception,
                 calls, run, history>>

(***************************************************************************)
(* update_excel, lines 72-79: a new workbook with the header row when      *)
(* there is no file, else the workbook loaded from the file; the lookup    *)
(* workbook["Dividends"] raises KeyError when no sheet has that title.     *)
(***************************************************************************)
SheetName == "Dividends"

\* sheet.append(row) on the sheet at position k of wb
AppendRow(wb, k, row) == [wb EXCEPT ![k].rows = Append(@, row)]

\* lines 73-76: the sheet is workbook.active, the first one
CreatedWorkbook ==
  AppendRow([NewWorkbook EXCEPT ![1].title = SheetName], 1, Header)

UpdateExcel ==
  /\ pc = "update_excel"
  /\ calls' = [calls EXCEPT !.update_excel = @ + 1]
  /\ IF ~excel.exists
     THEN /\ workbook' = CreatedWorkbook
          /\ pc' = "append"
          /\ UNCHANGED exception
     ELSE IF SheetsTitled(excel.sheets, SheetName) = {}
     THEN /\ workbook' = excel.sheets
          /\ exception' = "KeyError"
          /\ pc' = "raised"
     ELSE /\ workbook' = excel.sheets
          /\ pc' = "append"
          /\ UNCHANGED exception
  /\ UNCHANGED <<listing, chunks, excel, i, open_files, details, dividend_data, run,
                 history>>

(***************************************************************************)
(* Lines 81-84: every entry of data is appended to the sheet, in order,    *)
(* and the workbook is saved over the file.                                *)
(***************************************************************************)
\* the entries appended last to first
RECURSIVE AppendAllReversed(_, _, _)
AppendAllReversed(wb, k, data) ==
  IF data = <<>> THEN wb
  ELSE AppendRow(AppendAllReversed(wb, k, Tail(data)), k, Head(data).v)

RECURSIVE AppendAll(_, _, _)
AppendAll(wb, k, data) ==
  IF data = <<>> THEN wb
  ELSE AppendAll(AppendRow(wb, k, Head(data).v), k, Tail(data))

\* the position of `sheet` in the workbook: in both branches of lines 72-79
\* it is the sheet titled "Dividends"
TheSheet(wb) == CHOOSE k \in SheetsTitled(wb, SheetName) : TRUE

AppendAndSave ==
  /\ pc = "append"
  /\ workbook' = AppendAll(workbook, TheSheet(workbook), dividend_data)
  /\ excel' = File(workbook')
  /\ calls' = [calls EXCEPT !.save = @ + 1]
  /\ pc' = "done"
  /\ UNCHANGED <<listing, chunks, i, open_files, details, dividend_data, exception,
                 run, history>>

(***************************************************************************)
(* Line 109 once more: the script is run again on the same directory and   *)
(* destination.  Nothing but the files is kept from one run to the next.   *)
(***************************************************************************)
RunAgain ==
  /\ pc \in {"done", "raised"}
  /\ run < MaxRuns
  /\ run' = run + 1
  /\ history' = Append(history, excel)
  /\ pc' = "for"
  /\ i' = 0
  /\ open_files' = {}
  /\ details' = None
  /\ dividend_data' = <<>>
  /\ workbook' = <<>>
  /\ exception' = ""
  /\ calls' = [update_excel |-> 0, save |-> 0]
  /\ UNCHANGED <<listing, chunks, excel>>

Next ==
  \/ ForNext
  \/ ForEnd
  \/ Open
  \/ PdfReader
  \/ Extract
  \/ Collect
  \/ UpdateExcel
  \/ AppendAndSave
  \/ RunAgain

Spec == Init /\ [][Next]_vars

(***************************************************************************)
(* Extraction alone: extract_dividend_details has opened and parsed a      *)
(* document of 3 pages whose page 3 is any text made of chunks, and        *)
(* returns; process_pdfs collects what it returned.                        *)
(***************************************************************************)
InitExtract ==
  /\ listing = <<"composed">>
  /\ chunks \in ChunkSeqs(MaxChunks)
  /\ excel = NoFile
  /\ pc = "pages"
  /\ i = 1
  /\ open_files = {1}
  /\ details = None
  /\ dividend_data = <<>>
  /\ workbook = <<>>
  /\ exception = ""
  /\ calls = [update_excel |-> 0, save |-> 0]
  /\ run = 1
  /\ history = <<excel>>

NextExtract == Extract \/ Collect

SpecExtract == InitExtract /\ [][NextExtract]_vars

(***************************************************************************)
(* What the four patterns say, stated on the text itself and not through   *)
(* the matcher: P(text, a, b) holds when the characters at the positions   *)
(* a .. b-1 of text are an instance of the pattern.                        *)
(***************************************************************************)
AllIn(text, a, b, set) == \A k \in a..(b - 1) : text[k] \in set

WordBefore(text, p) == p > 1 /\ text[p - 1] \in WordChars

WordAfter(text, p) == p <= Len(text) /\ text[p] \in WordChars

AtWordEdge(text, p) == WordBefore(text, p) # WordAfter(text, p)

IsDecimal(text, a, b) ==
  \E dot \in (a + 1)..(b - 2) :
    /\ text[dot] = "."
    /\ AllIn(text, a, dot, Digits)
    /\ AllIn(text, dot + 1, b, Digits)

IsDate(text, a, b) ==
  /\ b = a + 7
  /\ AllIn(text, a, a + 2, Digits)
  /\ AllIn(text, a + 2, a + 5, Letters)
  /\ AllIn(text, a + 5, a + 7, Digits)

IsName(text, a, b) ==
  /\ AtWordEdge(text, a)
  /\ AtWordEdge(text, b)
  /\ \E k \in 1..Len(Suffixes) :
       LET mid == b - Len(Suffixes[k])
       IN /\ mid > a
          /\ SubSeq(text, mid, b - 1) = Suffixes[k]
          /\ AllIn(text, a, mid, NameChars)

IsDividend(text, a, b) ==
  \E at \in (a + 1)..(b - 4) :
    /\ text[at] = "@"
    /\ AllIn(text, a, at, Digits)
    /\ IsDecimal(text, at + 1, b)

IsAmount(text, a, b) ==
  /\ b - a >= Len(DividendWord) + 4
  /\ SubSeq(text, a, a + Len(DividendWord) - 1) = DividendWord
  /\ text[a + Len(DividendWord)] \in Whitespace
  /\ IsDecimal(text, a + Len(DividendWord) + 1, b)

Positions(text) == 1..(Len(text) + 1)

Instance(p, text, a, b) ==
  CASE p = "date" -> IsDate(text, a, b)
    [] p = "name" -> IsName(text, a, b)
    [] p = "dividend" -> IsDividend(text, a, b)
    [] p = "amount" -> IsAmount(text, a, b)

Occurs(p, text) ==
  \E a \in Positions(text) : \E b \in Positions(text) :
    a < b /\ Instance(p, text, a, b)

\* the first instance: the one that starts first and, as each repetition in
\* the patterns is greedy, the longest of those that start there
FirstOf(p, text) ==
  LET starts == {a \in Positions(text) :
                   \E b \in Positions(text) : a < b /\ Instance(p, text, a, b)}
      a == CHOOSE x \in starts : \A y \in starts : x <= y
      ends == {b \in Positions(text) : a < b /\ Instance(p, text, a, b)}
  IN [from |-> a, to |-> CHOOSE x \in ends : \A y \in ends : y <= x]

TextOf(p, text) == LET m == FirstOf(p, text) IN SubSeq(text, m.from, m.to - 1)

\* the number a value [mant, scale] stands for is the decimal written ds
IsNumber(value, ds) ==
  LET dot == CHOOSE k \in 1..Len(ds) : ds[k] = "."
      digits == SubSeq(ds, 1, dot - 1) \o SubSeq(ds, dot + 1, Len(ds))
      places == Len(ds) - dot
  IN /\ value.kind = "float"
     /\ value.scale \in 0..places
     /\ value.mant * 10^(places - value.scale) = NatOf(digits)
     /\ value.scale > 0 => value.mant % 10 # 0

AllFour(text) == \A p \in {"date", "name", "dividend", "amount"} : Occurs(p, text)

\* the text the document at position k of the listing has on page 3
PageThree(k) == Entry(k, listing[k], chunks).pages[3]

\* C8: when extract_dividend_details has returned for a document of at least 3
\* pages, it returned a record if and only if the text of page 3 holds an
\* instance of each of the four patterns, and the record is the 4-tuple of the
\* first date, the first name, the first dividend detail and the number
\* written after the first "Dividend ".
C8_RecordIffAllFour ==
  (pc = "details" /\ Len(Entry(i, listing[i], chunks).pages) >= 3) =>
    LET text == PageThree(i)
    IN /\ (details # None) <=> AllFour(text)
       /\ details # None =>
            /\ details.kind = "tuple"
            /\ Len(details.v) = 4
            /\ details.v[1] = Str(TextOf("date", text))
            /\ details.v[2] = Str(TextOf("name", text))
            /\ details.v[3] = Str(TextOf("dividend", text))
            /\ LET amount == TextOf("amount", text)
               IN IsNumber(details.v[4],
                           SubSeq(amount, Len(DividendWord) + 2, Len(amount)))

\* a record was returned whose dividend detail starts in the digits of the date
C8_Witness ==
  /\ pc = "details"
  /\ details # None
  /\ details.v[1] = Str(cDate(1))
  /\ details.v[3] = Str(<<"2", "4", "5", "@", "0", ".", "2">>)

(***************************************************************************)
(* The documents of the listing and the store, as the claims speak of them.*)
(***************************************************************************)
\* the file at excel_path when the current run started
Before == history[run]

HasSheet(f) == f.exists /\ \E k \in 1..Len(f.sheets) : f.sheets[k].title = "Dividends"

\* the rows of the sheet "Dividends" of a file, none when it has no such sheet
RowsOf(f) ==
  IF HasSheet(f)
  THEN f.sheets[CHOOSE k \in 1..Len(f.sheets) : f.sheets[k].title = "Dividends"].rows
  ELSE <<>>

\* the data rows: the rows after the header row
DataRows(f) == IF RowsOf(f) = <<>> THEN <<>> ELSE Tail(RowsOf(f))

\* a destination update_excel can use: no file, or a file with the sheet
Usable(f) == ~f.exists \/ HasSheet(f)

\* the entry at position k is a document process_pdfs takes
Enumerated(k) ==
  LET name == Entry(k, listing[k], chunks).name
  IN Len(name) >= 4 /\ SubSeq(name, Len(name) - 3, Len(name)) = <<".", "p", "d", "f">>

Readable(k) == Entry(k, listing[k], chunks).kind = "pdf"

\* the document at position k has at least 3 pages and all four fields on page 3
Matched(k) ==
  /\ Enumerated(k)
  /\ Readable(k)
  /\ Len(Entry(k, listing[k], chunks).pages) >= 3
  /\ ExtractFields(PageThree(k)) # None

RecordOf(k) == ExtractFields(PageThree(k)).v

\* the records of the matched documents among the first n entries, in the
\* order of the listing
RECURSIVE Records(_)
Records(n) ==
  IF n = 0 THEN <<>>
  ELSE IF Matched(n) THEN Append(Records(n - 1), RecordOf(n)) ELSE Records(n - 1)

MatchedDocs == {k \in 1..Len(listing) : Matched(k)}

\* a document that cannot be opened or cannot be parsed
Unreadable(k) == Enumerated(k) /\ ~Readable(k)

\* the data rows this run has added to the store
Added == SubSeq(DataRows(excel), Len(DataRows(Before)) + 1, Len(DataRows(excel)))

Ended == pc \in {"done", "raised"}

NoUnreadable == \A k \in 1..Len(listing) : ~Unreadable(k)

Count(rows, row) == Cardinality({j \in 1..Len(rows) : rows[j] = row})

ClaimedHeader ==
  <<Str(<<"D", "a", "t", "e">>), Str(<<"N", "a", "m", "e">>),
    Str(<<"D", "i", "v", "i", "d", "e", "n", "d", " ",
          "D", "e", "t", "a", "i", "l", "s">>),
    Str(<<"A", "m", "o", "u", "n", "t">>)>>

(***************************************************************************)
(* The claims about whole runs.  C1 to C7 as stated fail on a listing with *)
(* a document that cannot be opened or parsed, whose exception nothing     *)
(* catches; each holds of the listings without such a document, which is   *)
(* the formula that follows it.                                            *)
(***************************************************************************)
\* C1: no failure of one document ends the run: when the run has ended, the
\* loop has taken every entry of the listing and update_excel has been called.
C1_FailuresAreLocal ==
  Ended => (i = Len(listing) /\ calls.update_excel = 1)

\* C1 holds of the failures the code handles: with no document in the listing
\* that cannot be opened or parsed, a run ends only after the whole listing.
C1_WhenAllReadable ==
  (Ended /\ NoUnreadable) => (i = Len(listing) /\ calls.update_excel = 1)

\* C2: after a run on a usable destination, the data rows the run added are
\* the records of the matched documents, one row for each and none for any
\* other document, and every row has four cells.
C2_RowsAreMatchedDocuments ==
  (Ended /\ Usable(Before)) =>
    /\ Added = Records(Len(listing))
    /\ \A j \in 1..Len(Added) : Len(Added[j]) = 4

\* C2 without the documents that cannot be opened or parsed
C2_WhenAllReadable ==
  (Ended /\ Usable(Before) /\ NoUnreadable) =>
    /\ Added = Records(Len(listing))
    /\ \A j \in 1..Len(Added) : Len(Added[j]) = 4

\* C3: update_excel is called only after the loop has taken every entry, with
\* the records of all matched documents, and by the end of the run it has been
\* called exactly once; on a usable destination so has workbook.save.
C3_OneStoreCall ==
  /\ calls.update_excel \in {0, 1}
  /\ calls.update_excel = 1 =>
       /\ i = Len(listing)
       /\ dividend_data = [j \in 1..Len(Records(i)) |-> Tuple(Records(i)[j])]
  /\ Ended =>
       /\ calls.update_excel = 1
       /\ Usable(Before) => calls.save = 1

\* C3 without the documents that cannot be opened or parsed
C3_WhenAllReadable ==
  NoUnreadable => C3_OneStoreCall

\* C4: when the destination had the sheet with a header and N data rows, a run
\* leaves N + M data rows, M the number of matched documents; the rows that
\* were there are the first rows still, and no row added is a header.
C4_ExistingRowsKept ==
  (Ended /\ HasSheet(Before)) =>
    /\ Len(DataRows(excel)) = Len(DataRows(Before)) + Cardinality(MatchedDocs)
    /\ SubSeq(RowsOf(excel), 1, Len(RowsOf(Before))) = RowsOf(Before)
    /\ \A j \in 1..Len(Added) : Added[j] # ClaimedHeader

\* C4 without the documents that cannot be opened or parsed
C4_WhenAllReadable ==
  NoUnreadable => C4_ExistingRowsKept

\* C5: after two runs on the same listing and a usable destination, the rows
\* added since the first run started hold the record of every matched
\* document twice.
C5_SecondRunDoubles ==
  (Ended /\ run >= 2 /\ Usable(history[run - 1])) =>
    LET first == DataRows(history[run - 1])
        both == SubSeq(DataRows(excel), Len(first) + 1, Len(DataRows(excel)))
    IN /\ Len(both) = 2 * Cardinality(MatchedDocs)
       /\ \A k \in MatchedDocs : Count(both, RecordOf(k)) = 2

\* C5 without the documents that cannot be opened or parsed
C5_WhenAllReadable ==
  NoUnreadable => C5_SecondRunDoubles

\* C6: when there was no destination file, after the run there is one, with a
\* sheet "Dividends" whose first row is the header, followed by one row for
\* each record collected.
C6_CreatedWithHeader ==
  (Ended /\ ~Before.exists) =>
    /\ excel.exists
    /\ HasSheet(excel)
    /\ RowsOf(excel) # <<>>
    /\ Head(RowsOf(excel)) = ClaimedHeader
    /\ Tail(RowsOf(excel)) = Records(Len(listing))

\* C6 without the documents that cannot be opened or parsed
C6_WhenAllReadable ==
  NoUnreadable => C6_CreatedWithHeader

\* C7: on a destination file without the sheet "Dividends" update_excel
\* raises and the file stays as it was, and a run ends with an exception in
\* this case only.
C7_OnlyFatalCondition ==
  /\ (Ended /\ calls.update_excel = 1 /\ ~Usable(Before)) =>
       /\ pc = "raised"
       /\ calls.save = 0
       /\ excel = Before
  /\ pc = "raised" => (exception = "KeyError" /\ ~Usable(Before))

\* C7 without the documents that cannot be opened or parsed
C7_WhenAllReadable ==
  NoUnreadable => C7_OnlyFatalCondition

\* the record of each matched document
RecordAt == [k \in MatchedDocs |-> RecordOf(k)]

\* the position in the listing of the document a row was extracted from
SourceOf(row) == CHOOSE k \in MatchedDocs : RecordOf(k) = row

\* C9: whenever the store is not as it was before the run, the rows the run
\* has added are records of matched documents and stand in the order of their
\* documents in the listing, after all the rows the store had before the run.
C9_RowsInListingOrder ==
  excel # Before =>
    LET record == RecordAt
        added == Added
        source == [a \in 1..Len(added) |->
                     CHOOSE k \in DOMAIN record : record[k] = added[a]]
    IN /\ SubSeq(RowsOf(excel), 1, Len(RowsOf(Before))) = RowsOf(Before)
       /\ \A a \in 1..Len(added) : \E k \in DOMAIN record : record[k] = added[a]
       /\ \A a \in 1..Len(added) : \A b \in 1..Len(added) :
            a < b => source[a] < source[b]

\* two rows were added after an old row, from documents with a skipped
\* document between them
C9_Witness ==
  /\ pc = "done"
  /\ Len(DataRows(Before)) >= 1
  /\ Len(Added) = 2
  /\ SourceOf(Added[2]) - SourceOf(Added[1]) = 2

\* C10: at most one document is open, and it is the one the loop is at; none
\* is open when the next one is opened, when extract_dividend_details has
\* returned or raised, or from the call of update_excel on.
C10_OneDocumentOpen ==
  /\ Cardinality(open_files) <= 1
  /\ open_files \subseteq {i}
  /\ pc \in {"for", "open", "details", "raised", "update_excel", "append", "done"}
       => open_files = {}

\* the second document of the listing could not be parsed, after a first one
\* that was opened and closed
C10_Witness ==
  /\ pc = "raised"
  /\ exception = "PdfReadError"
  /\ i = 2
  /\ Readable(1)
  /\ Enumerated(1)

====
